---- MODULE Spec2Model ----
(***************************************************************************)
(* Model of the sign-up view (src/src/pages/Signup.tsx), of the auth state *)
(* provider and of the API client (src/unnamed/part_000).                  *)
(*                                                                         *)
(* Text values are sequences of one-character strings.  A handler is an    *)
(* async function: each action below is one synchronous segment of a       *)
(* handler, from its start or from the resumption of an await up to the    *)
(* next await or its end.  A provider call in flight is part of the state. *)
(***************************************************************************)
EXTENDS Integers, Sequences, FiniteSets, TLC

(* ------------------------------- bounds -------------------------------- *)

\* manual resend handlers that may be in flight at once
MaxResendInFlight == 1

\* login() calls and logout() calls that may be in flight at once
MaxLoginCalls == 1
MaxLogoutCalls == 1

\* values of the clock read by new Date()
MaxTime == 1

\* calls of API-client operations that are made
MaxApiCalls == 2

(* --------------------------- values and inputs ------------------------- *)

EmptyText == << >>

Names == { EmptyText, <<"A", "n", "n">> }

EmailA == <<"a", "@", "x", ".", "c">>
EmailB == <<"b", "@", "x", ".", "c">>
\* what the email input may hold: nothing, a text that is no address, an address
Emails == { EmptyText, <<"a", "b">>, EmailA }

WeakPassword == <<"a", "b", "c">>
StrongPassword == <<"P", "a", "s", "s", "w", "0", "r", "d">>
Passwords == { EmptyText, WeakPassword, StrongPassword }

Codes == { EmptyText, <<"1", "2", "3">> }

UpperChars == {"A", "P"}
LowerChars == {"a", "b", "c", "d", "n", "r", "s", "w", "x"}
DigitChars == {"0", "1", "2", "3"}

\* errors a provider call may reject with; message holds the text as a
\* sequence of words, and is empty when the error carries no message
ProviderErrors ==
  { [name |-> "UsernameExistsException", message |-> {}],
    [name |-> "ServiceError", message |-> { <<"An", "account", "already", "exists", "here">> }],
    [name |-> "LimitExceededException", message |-> { <<"Attempt", "limit", "exceeded">> }] }

NoError == [name |-> "none", message |-> {}]

\* what a provider call settles with
Resolved == [ok |-> TRUE, error |-> NoError]
Rejected(err) == [ok |-> FALSE, error |-> err]
Settlements == { Resolved } \cup { Rejected(err) : err \in ProviderErrors }

\* the settlement field of a call that has not settled
Unsettled == [ok |-> FALSE, error |-> NoError]

\* a settlement without its error: "resolved" or "rejected" ("unsettled"
\* before the call settles)
Outcome(r) == IF r.ok THEN "resolved" ELSE "rejected"

\* what getCurrentUser() resolves with
Identities == { [userId |-> "id-a", username |-> EmailA],
                [userId |-> "id-b", username |-> EmailB] }

Times == 1..MaxTime

\* the credentials login() is called with
LoginEmails == { EmailA }
LoginPasswords == { StrongPassword }

LoginIds == 1..MaxLoginCalls
LogoutIds == 1..MaxLogoutCalls

(* ------------------------------- state --------------------------------- *)

\* Of the draft only email is kept as state.  name, password and
\* confirmPassword are read by handleSignupSubmit alone and verificationCode
\* by handleVerificationSubmit alone, each in a state where its input is
\* rendered and editable, so the value read is whatever the user typed last:
\* they are the parameters of these two actions.
VARIABLES
  step, email,
  errors, isLoading, resendStatus,
  location,      \* route shown by the router: navigate('/login') leaves the view
  apiError,      \* last error given to handleApiError
  signupH,       \* handleSignupSubmit: the running or the latest submission
  verifyH,       \* handleVerificationSubmit: the running or the latest submission
  resendH,       \* handleResendCode: how many of its resend calls are in flight
  lastResend     \* what the manual resend call that settled last settled with

viewVars == << step, email,
               errors, isLoading, resendStatus, location, apiError,
               signupH, verifyH, resendH, lastResend >>

\* AuthProvider
VARIABLES
  user,          \* useState<User | null>
  authIsLoading, \* the provider's isLoading
  mountH,        \* the checkUser() started by the mount effect
  loginH,        \* login() calls: the running or the latest call of each caller
  logoutH        \* logout() calls: the running or the latest call of each caller

authVars == << user, authIsLoading, mountH, loginH, logoutH >>

\* API client: it holds no state of its own; apiH is the record of each call
\* made of one of its operations
VARIABLES apiH

apiVars == << apiH >>

vars == << viewVars, authVars, apiVars >>

(* --------------------------- validation utils -------------------------- *)

MinPasswordLength == 8

validateRequired(v) == Len(v) > 0

validateEmail(v) ==
  \E at \in 1..Len(v) :
    /\ v[at] = "@"
    /\ \A i \in 1..Len(v) : v[i] = "@" => i = at
    /\ at > 1
    /\ \E dot \in (at + 2)..(Len(v) - 1) : v[dot] = "."

validatePassword(v) ==
  /\ Len(v) >= MinPasswordLength
  /\ \E i \in 1..Len(v) : v[i] \in UpperChars
  /\ \E i \in 1..Len(v) : v[i] \in LowerChars
  /\ \E i \in 1..Len(v) : v[i] \in DigitChars

(* ------------------------------ messages ------------------------------- *)

NameRequired == "Name is required"
EmailRequired == "Email is required"
EmailInvalid == "Invalid email format"
PasswordRequired == "Password is required"
PasswordWeak == "Password must be at least 8 characters with uppercase, lowercase, and number"
PasswordsDiffer == "Passwords do not match"
UserExists == "User already exists. Please verify your email."
CodeRequired == "Verification code is required"
CodeInvalid == "Invalid verification code"

AutoResendSent ==
  [message |-> "A new verification code has been sent to your email.", type |-> "success"]
ResendSent ==
  [message |-> "New code sent successfully!", type |-> "success"]
ResendLimited ==
  [message |-> "Cannot send multiple emails in a short time. Please try again later.",
   type |-> "error"]

\* resendStatus when it is null
NoStatus == [message |-> "", type |-> "null"]

NoErrors == [f \in {} |-> ""]

OneError(field, msg) == [f \in {field} |-> msg]

(* ------------------------- sign-up view: helpers ----------------------- *)

Includes(text, part) ==
  \E i \in 1..(Len(text) - Len(part) + 1) : SubSeq(text, i, i + Len(part) - 1) = part

\* mutants of isAlreadyExists: one of the two tests is dropped
isAlreadyExistsMessageOnly(error) ==
  \E m \in error.message : Includes(m, <<"already", "exists">>)

isAlreadyExistsNameOnly(error) ==
  error.name = "UsernameExistsException"

\* error.name === 'UsernameExistsException' || error.message?.includes('already exists')
isAlreadyExists(error) ==
  \/ error.name = "UsernameExistsException"
  \/ \E m \in error.message : Includes(m, <<"already", "exists">>)

nameError(n) == IF ~validateRequired(n) THEN NameRequired ELSE ""

emailError(e) ==
  IF ~validateRequired(e) THEN EmailRequired
  ELSE IF ~validateEmail(e) THEN EmailInvalid ELSE ""

passwordError(p) ==
  IF ~validateRequired(p) THEN PasswordRequired
  ELSE IF ~validatePassword(p) THEN PasswordWeak ELSE ""

confirmPasswordError(p, c) == IF p # c THEN PasswordsDiffer ELSE ""

fieldError(f, n, e, p, c) ==
  CASE f = "name" -> nameError(n)
    [] f = "email" -> emailError(e)
    [] f = "password" -> passwordError(p)
    [] f = "confirmPassword" -> confirmPasswordError(p, c)

\* the newErrors object validate() builds from the draft
newErrors(n, e, p, c) ==
  [f \in { g \in {"name", "email", "password", "confirmPassword"} :
             fieldError(g, n, e, p, c) # "" } |-> fieldError(f, n, e, p, c)]

\* mutant of validate: the confirm-password error does not count
validateIgnoresConfirm(n, e, p, c) ==
  DOMAIN newErrors(n, e, p, c) \ {"confirmPassword"} = {}

\* the value validate() returns
validate(n, e, p, c) == DOMAIN newErrors(n, e, p, c) = {}

\* the auth provider's pass-throughs: the caller sees the provider's
\* settlement, a rejection being logged and thrown again
\* mutant of signup: the catch logs and does not throw again
signupSwallows(r) == Resolved

signup(r) == IF r.ok THEN Resolved ELSE Rejected(r.error)
verifyCode(r) == IF r.ok THEN Resolved ELSE Rejected(r.error)
\* mutant of resendCode: the catch logs and does not throw again
resendCodeSwallows(r) == Resolved

resendCode(r) == IF r.ok THEN Resolved ELSE Rejected(r.error)

signUpCall(e, p, n) == [op |-> "signUp", username |-> e, password |-> p, name |-> n]
resendCall(e) == [op |-> "resendSignUpCode", username |-> e, password |-> EmptyText, name |-> EmptyText]
confirmCall(e, c) == [op |-> "confirmSignUp", username |-> e, code |-> c]

\* the record of a submission: where the handler stands (pc), what it read
\* from the form, what each awaited provider call settled with, and the
\* provider calls it has made
NoDraft == [name |-> EmptyText, email |-> EmptyText, password |-> EmptyText,
            confirmPassword |-> EmptyText]
IdleSignup == [pc |-> "idle", draft |-> NoDraft, result |-> Unsettled,
               resend |-> "unsettled", calls |-> << >>]
IdleVerify == [pc |-> "idle", result |-> "unsettled", calls |-> << >>]

\* the view is mounted until navigate('/login')
Mounted == location = "/signup"

(* ------------------------- sign-up view: actions ----------------------- *)

InitView ==
  /\ step = "signup"
  /\ email = EmptyText
  /\ errors = NoErrors
  /\ isLoading = FALSE
  /\ resendStatus = NoStatus
  /\ location = "/signup"
  /\ apiError = NoError
  /\ signupH = IdleSignup
  /\ verifyH = IdleVerify
  /\ resendH = 0
  /\ lastResend = "unsettled"

\* the sign-up form's email input, rendered while step is 'signup'
setEmail(v) ==
  /\ UNCHANGED << authVars, apiVars >>
  /\ Mounted /\ step = "signup"
  /\ email' = v
  /\ UNCHANGED << step, errors,
                  isLoading, resendStatus, location, apiError, signupH, verifyH,
                  resendH, lastResend >>

\* submit of the sign-up form (its button is disabled while isLoading):
\* validate(), then up to the await of signup()
handleSignupSubmit(name, password, confirmPassword) ==
  /\ UNCHANGED << authVars, apiVars >>
  /\ Mounted /\ step = "signup" /\ ~isLoading
  /\ errors' = newErrors(name, email, password, confirmPassword)
  /\ IF ~validate(name, email, password, confirmPassword)
     THEN /\ signupH' = [IdleSignup EXCEPT
                           !.pc = "done",
                           !.draft = [name |-> name, email |-> email,
                                      password |-> password,
                                      confirmPassword |-> confirmPassword]]
          /\ UNCHANGED << isLoading, resendStatus >>
     ELSE /\ isLoading' = TRUE
          /\ resendStatus' = NoStatus
          /\ signupH' = [IdleSignup EXCEPT
                           !.pc = "signUp",
                           !.draft = [name |-> name, email |-> email,
                                      password |-> password,
                                      confirmPassword |-> confirmPassword],
                           !.calls = << signUpCall(email, password, name) >>]
  /\ UNCHANGED << step, email,
                  location, apiError, verifyH, resendH, lastResend >>

\* signup() resolved: setStep('verification'), finally
signupResolved(r) ==
  /\ UNCHANGED << authVars, apiVars >>
  /\ signupH.pc = "signUp"
  /\ signup(r).ok
  /\ step' = "verification"
  /\ isLoading' = FALSE
  /\ signupH' = [signupH EXCEPT !.pc = "done", !.result = r]
  /\ UNCHANGED << email, errors,
                  resendStatus, location, apiError, verifyH, resendH, lastResend >>

\* signup() threw 'already exists': up to the await of resendCode()
signupRejectedExists(r) ==
  /\ UNCHANGED << authVars, apiVars >>
  /\ signupH.pc = "signUp"
  /\ ~signup(r).ok
  /\ isAlreadyExists(signup(r).error)
  /\ errors' = OneError("email", UserExists)
  /\ step' = "verification"
  /\ signupH' = [signupH EXCEPT !.pc = "resendCode", !.result = r,
                                !.calls = Append(@, resendCall(signupH.draft.email))]
  /\ UNCHANGED << email,
                  isLoading, resendStatus, location, apiError, verifyH, resendH,
                  lastResend >>

\* mutant of signupRejectedOther: the catch calls signup() once more
signupRejectedOtherRetries(r) ==
  /\ UNCHANGED << authVars, apiVars >>
  /\ signupH.pc = "signUp"
  /\ ~signup(r).ok
  /\ ~isAlreadyExists(signup(r).error)
  /\ apiError' = signup(r).error
  /\ isLoading' = (Len(signupH.calls) < 2)
  /\ signupH' = IF Len(signupH.calls) < 2
                THEN [signupH EXCEPT !.result = r,
                                     !.calls = Append(@, signupH.calls[1])]
                ELSE [signupH EXCEPT !.pc = "done", !.result = r]
  /\ UNCHANGED << step, email,
                  errors, resendStatus, location, verifyH, resendH, lastResend >>

\* signup() threw anything else: handleApiError(error), finally
signupRejectedOther(r) ==
  /\ UNCHANGED << authVars, apiVars >>
  /\ signupH.pc = "signUp"
  /\ ~signup(r).ok
  /\ ~isAlreadyExists(signup(r).error)
  /\ apiError' = signup(r).error
  /\ isLoading' = FALSE
  /\ signupH' = [signupH EXCEPT !.pc = "done", !.result = r]
  /\ UNCHANGED << step, email,
                  errors, resendStatus, location, verifyH, resendH, lastResend >>

\* mutant of autoResendSettled: the loading flag is reset only where the
\* resend succeeded
autoResendSettledKeepsLoading(r) ==
  /\ UNCHANGED << authVars, apiVars >>
  /\ signupH.pc = "resendCode"
  /\ IF resendCode(r).ok
     THEN resendStatus' = AutoResendSent /\ isLoading' = FALSE
     ELSE UNCHANGED << resendStatus, isLoading >>
  /\ signupH' = [signupH EXCEPT !.pc = "done", !.resend = Outcome(r)]
  /\ UNCHANGED << step, email,
                  errors, location, apiError, verifyH, resendH, lastResend >>

\* the automatic resendCode() settled: setResendStatus on success, nothing
\* on failure, finally
autoResendSettled(r) ==
  /\ UNCHANGED << authVars, apiVars >>
  /\ signupH.pc = "resendCode"
  /\ IF resendCode(r).ok
     THEN resendStatus' = AutoResendSent
     ELSE UNCHANGED resendStatus
  /\ signupH' = [signupH EXCEPT !.pc = "done", !.resend = Outcome(r)]
  /\ isLoading' = FALSE
  /\ UNCHANGED << step, email,
                  errors, location, apiError, verifyH, resendH, lastResend >>

\* mutant of handleVerificationSubmit: an empty code sets the loading flag
\* before its error is recorded
handleVerificationSubmitLoadsFirst(verificationCode) ==
  /\ UNCHANGED << authVars, apiVars >>
  /\ Mounted /\ step = "verification" /\ ~isLoading
  /\ isLoading' = TRUE
  /\ IF ~validateRequired(verificationCode)
     THEN /\ errors' = OneError("code", CodeRequired)
          /\ verifyH' = [IdleVerify EXCEPT !.pc = "done"]
     ELSE /\ verifyH' = [IdleVerify EXCEPT
                           !.pc = "confirmSignUp",
                           !.calls = << confirmCall(email, verificationCode) >>]
          /\ UNCHANGED errors
  /\ UNCHANGED << step, email,
                  resendStatus, location, apiError, signupH, resendH, lastResend >>

\* submit of the verification form (its button is disabled while isLoading)
handleVerificationSubmit(verificationCode) ==
  /\ UNCHANGED << authVars, apiVars >>
  /\ Mounted /\ step = "verification" /\ ~isLoading
  /\ IF ~validateRequired(verificationCode)
     THEN /\ errors' = OneError("code", CodeRequired)
          /\ verifyH' = [IdleVerify EXCEPT !.pc = "done"]
          /\ UNCHANGED isLoading
     ELSE /\ isLoading' = TRUE
          /\ verifyH' = [IdleVerify EXCEPT
                           !.pc = "confirmSignUp",
                           !.calls = << confirmCall(email, verificationCode) >>]
          /\ UNCHANGED errors
  /\ UNCHANGED << step, email,
                  resendStatus, location, apiError, signupH, resendH, lastResend >>

\* mutant of verifyCodeSettled: the success path does not navigate
verifyCodeSettledStays(r) ==
  /\ UNCHANGED << authVars, apiVars >>
  /\ verifyH.pc = "confirmSignUp"
  /\ IF verifyCode(r).ok
     THEN UNCHANGED << apiError, errors >>
     ELSE /\ apiError' = verifyCode(r).error
          /\ errors' = OneError("code", CodeInvalid)
  /\ verifyH' = [verifyH EXCEPT !.pc = "done", !.result = Outcome(r)]
  /\ isLoading' = FALSE
  /\ UNCHANGED << step, email, location, resendStatus, signupH, resendH, lastResend >>

\* verifyCode() settled: navigate('/login') on success, handleApiError and
\* the code error on failure, finally
verifyCodeSettled(r) ==
  /\ UNCHANGED << authVars, apiVars >>
  /\ verifyH.pc = "confirmSignUp"
  /\ IF verifyCode(r).ok
     THEN /\ location' = "/login"
          /\ UNCHANGED << apiError, errors >>
     ELSE /\ apiError' = verifyCode(r).error
          /\ errors' = OneError("code", CodeInvalid)
          /\ UNCHANGED location
  /\ verifyH' = [verifyH EXCEPT !.pc = "done", !.result = Outcome(r)]
  /\ isLoading' = FALSE
  /\ UNCHANGED << step, email,
                  resendStatus, signupH, resendH, lastResend >>

\* click on Resend Code (never disabled): up to the await of resendCode()
handleResendCode ==
  /\ UNCHANGED << authVars, apiVars >>
  /\ Mounted /\ step = "verification"
  /\ resendH < MaxResendInFlight
  /\ resendStatus' = NoStatus
  /\ resendH' = resendH + 1
  /\ UNCHANGED << step, email,
                  errors, isLoading, location, apiError, signupH, verifyH, lastResend >>

\* a manual resendCode() settled
resendCodeSettled(r) ==
  /\ UNCHANGED << authVars, apiVars >>
  /\ resendH > 0
  /\ resendStatus' = IF resendCode(r).ok THEN ResendSent ELSE ResendLimited
  /\ resendH' = resendH - 1
  /\ lastResend' = Outcome(r)
  /\ UNCHANGED << step, email,
                  errors, isLoading, location, apiError, signupH, verifyH >>

\* click on Back to Signup (never disabled)
backToSignup ==
  /\ UNCHANGED << authVars, apiVars >>
  /\ Mounted /\ step = "verification"
  /\ step' = "signup"
  /\ UNCHANGED << email, errors,
                  isLoading, resendStatus, location, apiError, signupH, verifyH,
                  resendH, lastResend >>

NextView ==
  \/ \E v \in Emails : setEmail(v)
  \/ \E n \in Names, p \in Passwords, c \in Passwords : handleSignupSubmit(n, p, c)
  \/ \E r \in Settlements : signupResolved(r)
  \/ \E r \in Settlements : signupRejectedExists(r)
  \/ \E r \in Settlements : signupRejectedOther(r)
  \/ \E r \in Settlements : autoResendSettled(r)
  \/ \E code \in Codes : handleVerificationSubmit(code)
  \/ \E r \in Settlements : verifyCodeSettled(r)
  \/ handleResendCode
  \/ \E r \in Settlements : resendCodeSettled(r)
  \/ backToSignup

(* ------------------------------ AuthProvider --------------------------- *)

\* user when it is null
NoUser == [id |-> "", email |-> EmptyText, name |-> EmptyText, role |-> "null",
           createdAt |-> 0]

\* the value the provider publishes as isAuthenticated: !!user
isAuthenticated == user # NoUser

\* the User checkUser() builds from getCurrentUser()'s result
newUser(currentUser, now) ==
  [id |-> currentUser.userId, email |-> currentUser.username,
   name |-> currentUser.username, role |-> "user", createdAt |-> now]

\* a call of the provider's API, as logged in the record of the caller
authCall(op) == [op |-> op, username |-> EmptyText, password |-> EmptyText]
signInCall(e, p) == [op |-> "signIn", username |-> e, password |-> p]

NoIdentity == [userId |-> "", username |-> EmptyText]

\* the record of a call of checkUser(), login() or logout(): where it stands
\* (pc), what its first provider call settled with (result), what its
\* getCurrentUser() settled with (current), the error it threw to its
\* caller, what it logged, the provider calls it has made, and whether a
\* logout() has cleared the published user since its session check started
\* (overtaken)
IdleCall == [pc |-> "idle",
             result |-> [ok |-> FALSE, isSignedIn |-> FALSE, error |-> NoError],
             current |-> [ok |-> FALSE, currentUser |-> NoIdentity],
             error |-> NoError, logged |-> "", calls |-> << >>,
             overtaken |-> FALSE]

\* the record of a call once a logout() has cleared the published user: a
\* session check in flight, and a login() that had reported signed-in, are
\* overtaken by that logout
overtake(h) ==
  IF h.pc \in {"fetchAuthSession", "getCurrentUser"}
       \/ (h.pc = "returned" /\ h.result.isSignedIn)
  THEN [h EXCEPT !.overtaken = TRUE]
  ELSE h

\* the settlement of fetchAuthSession() or signOut(), as kept in a record:
\* the code reads nothing of it but whether it threw
SessionResult(r) == [ok |-> r.ok, isSignedIn |-> FALSE, error |-> NoError]

\* the settlement of getCurrentUser(), as kept in a record
CurrentResult(r) == [ok |-> r.ok, currentUser |-> r.currentUser]

Running(h) == h.pc \notin {"idle", "returned", "threw"}

\* what signIn() settles with
SignInSettlements ==
  { [ok |-> TRUE, isSignedIn |-> b, error |-> NoError] : b \in BOOLEAN }
    \cup { [ok |-> FALSE, isSignedIn |-> FALSE, error |-> err] : err \in ProviderErrors }

\* what getCurrentUser() settles with
CurrentUserSettlements ==
  { [ok |-> TRUE, currentUser |-> cu, error |-> NoError] : cu \in Identities }
    \cup { [ok |-> FALSE, currentUser |-> NoIdentity, error |-> err] :
             err \in ProviderErrors }

InitAuth ==
  /\ user = NoUser
  /\ authIsLoading = TRUE
  /\ mountH = IdleCall
  /\ loginH = [i \in LoginIds |-> IdleCall]
  /\ logoutH = [j \in LogoutIds |-> IdleCall]

\* checkUser(): fetchAuthSession() settled.  h is the record of the check;
\* the result is the record after this segment
checkUserFetched(h, r) ==
  IF r.ok THEN [h EXCEPT !.pc = "getCurrentUser",
                          !.calls = Append(@, authCall("getCurrentUser"))]
  ELSE [h EXCEPT !.pc = "returned", !.logged = "User not signed in"]

\* checkUser(): what the segment after fetchAuthSession() does to the
\* published state: nothing on success, catch and finally on failure
checkUserFetchedState(r) ==
  IF r.ok THEN UNCHANGED << user, authIsLoading >>
  ELSE user' = NoUser /\ authIsLoading' = FALSE

\* checkUser(): getCurrentUser() settled: setUser, finally
checkUserDone(h, r) ==
  IF r.ok THEN [h EXCEPT !.pc = "returned", !.current = CurrentResult(r)]
  ELSE [h EXCEPT !.pc = "returned", !.current = CurrentResult(r),
                 !.logged = "User not signed in"]

\* mutant of checkUserDoneState: the catch does not clear the user
checkUserDoneStateKeepsUser(r, now) ==
  /\ user' = IF r.ok THEN newUser(r.currentUser, now) ELSE user
  /\ authIsLoading' = FALSE

checkUserDoneState(r, now) ==
  /\ user' = IF r.ok THEN newUser(r.currentUser, now) ELSE NoUser
  /\ authIsLoading' = FALSE

\* useEffect(() => { checkUser() }, []): up to the await of fetchAuthSession()
mountEffect ==
  /\ UNCHANGED << viewVars, apiVars >>
  /\ mountH.pc = "idle"
  /\ mountH' = [mountH EXCEPT !.pc = "fetchAuthSession",
                                !.calls = << authCall("fetchAuthSession") >>]
  /\ UNCHANGED << user, authIsLoading, loginH, logoutH >>

mountFetched(r) ==
  /\ UNCHANGED << viewVars, apiVars >>
  /\ mountH.pc = "fetchAuthSession"
  /\ mountH' = checkUserFetched([mountH EXCEPT !.result = SessionResult(r)], r)
  /\ checkUserFetchedState(r)
  /\ UNCHANGED << loginH, logoutH >>

mountDone(r, now) ==
  /\ UNCHANGED << viewVars, apiVars >>
  /\ mountH.pc = "getCurrentUser"
  /\ mountH' = checkUserDone(mountH, r)
  /\ checkUserDoneState(r, now)
  /\ UNCHANGED << loginH, logoutH >>

\* login(email, password): up to the await of signIn()
login(i, e, p) ==
  /\ UNCHANGED << viewVars, apiVars >>
  /\ ~Running(loginH[i])
  /\ loginH' = [loginH EXCEPT ![i] = [IdleCall EXCEPT !.pc = "signIn",
                                        !.calls = << signInCall(e, p) >>]]
  /\ UNCHANGED << user, authIsLoading, mountH, logoutH >>

\* mutant of loginSignedIn: checkUser() is called whatever isSignedIn is
loginSignedInAlwaysChecks(i, r) ==
  /\ UNCHANGED << viewVars, apiVars >>
  /\ loginH[i].pc = "signIn"
  /\ loginH' = [loginH EXCEPT ![i] =
       IF ~r.ok THEN [@ EXCEPT !.pc = "threw", !.result = r, !.error = r.error,
                               !.logged = "Login failed:"]
       ELSE [@ EXCEPT !.pc = "fetchAuthSession", !.result = r,
                      !.calls = Append(@, authCall("fetchAuthSession"))]]
  /\ UNCHANGED << user, authIsLoading, mountH, logoutH >>

\* login(): signIn() settled.  A rejection is logged and thrown again; a
\* signed-in result calls checkUser(), which runs up to its first await
loginSignedIn(i, r) ==
  /\ UNCHANGED << viewVars, apiVars >>
  /\ loginH[i].pc = "signIn"
  /\ loginH' = [loginH EXCEPT ![i] =
       IF ~r.ok THEN [@ EXCEPT !.pc = "threw", !.result = r, !.error = r.error,
                               !.logged = "Login failed:"]
       ELSE IF r.isSignedIn
         THEN [@ EXCEPT !.pc = "fetchAuthSession", !.result = r,
                        !.calls = Append(@, authCall("fetchAuthSession"))]
       ELSE [@ EXCEPT !.pc = "returned", !.result = r]]
  /\ UNCHANGED << user, authIsLoading, mountH, logoutH >>

\* login(): its checkUser() runs on; login returns when checkUser() does
loginFetched(i, r) ==
  /\ UNCHANGED << viewVars, apiVars >>
  /\ loginH[i].pc = "fetchAuthSession"
  /\ loginH' = [loginH EXCEPT ![i] = checkUserFetched(@, r)]
  /\ checkUserFetchedState(r)
  /\ UNCHANGED << mountH, logoutH >>

loginDone(i, r, now) ==
  /\ UNCHANGED << viewVars, apiVars >>
  /\ loginH[i].pc = "getCurrentUser"
  /\ loginH' = [loginH EXCEPT ![i] = checkUserDone(@, r)]
  /\ checkUserDoneState(r, now)
  /\ UNCHANGED << mountH, logoutH >>

\* logout(): up to the await of signOut()
logout(j) ==
  /\ UNCHANGED << viewVars, apiVars >>
  /\ ~Running(logoutH[j])
  /\ logoutH' = [logoutH EXCEPT ![j] = [IdleCall EXCEPT !.pc = "signOut",
                                          !.calls = << authCall("signOut") >>]]
  /\ UNCHANGED << user, authIsLoading, mountH, loginH >>

\* logout(): signOut() settled: setUser(null) after the await, inside the
\* try; the catch logs
logoutSignedOut(j, r) ==
  /\ UNCHANGED << viewVars, apiVars >>
  /\ logoutH[j].pc = "signOut"
  /\ IF r.ok
     THEN /\ user' = NoUser
          /\ logoutH' = [logoutH EXCEPT ![j] =
                           [@ EXCEPT !.pc = "returned", !.result = SessionResult(r)]]
          /\ mountH' = overtake(mountH)
          /\ loginH' = [i \in LoginIds |-> overtake(loginH[i])]
     ELSE /\ UNCHANGED << user, mountH, loginH >>
          /\ logoutH' = [logoutH EXCEPT ![j] =
                           [@ EXCEPT !.pc = "returned", !.result = SessionResult(r),
                                     !.logged = "Logout failed:"]]
  /\ UNCHANGED authIsLoading

NextAuth ==
  \/ mountEffect
  \/ \E r \in Settlements : mountFetched(r)
  \/ \E r \in CurrentUserSettlements, now \in Times : mountDone(r, now)
  \/ \E i \in LoginIds, e \in LoginEmails, p \in LoginPasswords : login(i, e, p)
  \/ \E i \in LoginIds, r \in SignInSettlements : loginSignedIn(i, r)
  \/ \E i \in LoginIds, r \in Settlements : loginFetched(i, r)
  \/ \E i \in LoginIds, r \in CurrentUserSettlements, now \in Times : loginDone(i, r, now)
  \/ \E j \in LogoutIds : logout(j)
  \/ \E j \in LogoutIds, r \in Settlements : logoutSignedOut(j, r)

(* ------------------------------ API client ----------------------------- *)

ApiIds == 1..MaxApiCalls

\* session.tokens?.idToken?.toString(): a token, or nothing (no tokens, no
\* idToken, or the empty text: all are falsy)
NoToken == ""
Tokens == { "token-1", "token-2" }

\* what fetchAuthSession() settles with in the API client
ApiSessionSettlements ==
  { [ok |-> TRUE, token |-> t, error |-> ""] : t \in Tokens \cup { NoToken } }
    \cup { [ok |-> FALSE, token |-> NoToken, error |-> "NotAuthorizedException"] }

NoSession == [ok |-> FALSE, token |-> NoToken, error |-> ""]

\* the operations that call fetch(): those that await getAuthHeaders() first,
\* and those that send no Authorization header
BearerOps == { "getRecommendations", "getReadingLists", "createReadingList",
               "updateReadingList", "deleteReadingList" }
OpenOps == { "getBooks", "getBook", "updateBook" }
ApiOps == BearerOps \cup OpenOps

apiMethod(op) ==
  CASE op \in { "getBooks", "getBook", "getReadingLists" } -> "GET"
    [] op \in { "getRecommendations", "createReadingList" } -> "POST"
    [] op \in { "updateBook", "updateReadingList" } -> "PUT"
    [] op = "deleteReadingList" -> "DELETE"

apiPath(op) ==
  CASE op = "getBooks" -> "/books"
    [] op \in { "getBook", "updateBook" } -> "/books/{id}"
    [] op = "getRecommendations" -> "/recommendations"
    [] op \in { "getReadingLists", "createReadingList" } -> "/reading-lists"
    [] op \in { "updateReadingList", "deleteReadingList" } -> "/reading-lists/{id}"

apiFailure(op) ==
  CASE op = "getBooks" -> "Failed to fetch books"
    [] op = "getBook" -> "Failed to fetch book"
    [] op = "updateBook" -> "Failed to update book"
    [] op = "getRecommendations" -> "Failed to fetch recommendations"
    [] op = "getReadingLists" -> "Failed to fetch reading lists"
    [] op = "createReadingList" -> "Failed to create reading list"
    [] op = "updateReadingList" -> "Failed to update reading list"
    [] op = "deleteReadingList" -> "Failed to delete reading list"

\* the Authorization header of a request: `Bearer ${token}`, or none
Bearer(token) == [scheme |-> "Bearer", token |-> token]
NoAuthorization == [scheme |-> "none", token |-> NoToken]

httpRequest(op, authorization) ==
  [method |-> apiMethod(op), path |-> apiPath(op), Authorization |-> authorization]

\* what fetch() settles with: a response with a status, or a rejection
NetworkFailure == 0
HttpStatuses == { 200, 404, 500 }
FetchSettlements == HttpStatuses \cup { NetworkFailure }
responseOk(status) == status \in 200..299

\* mutant of getAuthHeaders: a missing token is not checked
getAuthHeadersUnchecked(session) ==
  IF ~session.ok THEN [threw |-> session.error, Authorization |-> NoAuthorization]
  ELSE [threw |-> "", Authorization |-> Bearer(session.token)]

\* getAuthHeaders(), given what its fetchAuthSession() settled with: the
\* error it throws ("" if none) and the Authorization header it returns
getAuthHeaders(session) ==
  IF ~session.ok THEN [threw |-> session.error, Authorization |-> NoAuthorization]
  ELSE IF session.token = NoToken
    THEN [threw |-> "No auth token found", Authorization |-> NoAuthorization]
  ELSE [threw |-> "", Authorization |-> Bearer(session.token)]

\* the record of a call of an operation: where it stands (pc), the session
\* its getAuthHeaders() fetched, the HTTP requests it has issued, the error it
\* threw and the value it returned to its caller
IdleApi == [pc |-> "idle", op |-> "none", session |-> NoSession, requests |-> << >>,
            thrown |-> "", value |-> "none"]

InitApi == apiH = [k \in ApiIds |-> IdleApi]

\* call k is made, of operation op: up to its first await, which is the
\* fetchAuthSession() of getAuthHeaders() or the fetch()
apiCall(k, op) ==
  /\ UNCHANGED << viewVars, authVars >>
  /\ apiH[k].pc = "idle"
  /\ apiH' = [apiH EXCEPT ![k] =
       IF op \in BearerOps
       THEN [IdleApi EXCEPT !.pc = "fetchAuthSession", !.op = op]
       ELSE [IdleApi EXCEPT !.pc = "fetch", !.op = op,
                            !.requests = << httpRequest(op, NoAuthorization) >>]]

\* fetchAuthSession() settled: getAuthHeaders() throws, which ends the
\* operation, or returns the headers the operation calls fetch() with
apiSessionFetched(k, session) ==
  /\ UNCHANGED << viewVars, authVars >>
  /\ apiH[k].pc = "fetchAuthSession"
  /\ apiH' = [apiH EXCEPT ![k] =
       LET headers == getAuthHeaders(session)
       IN IF headers.threw # ""
          THEN [@ EXCEPT !.pc = "threw", !.session = session, !.thrown = headers.threw]
          ELSE [@ EXCEPT !.pc = "fetch", !.session = session,
                         !.requests = << httpRequest(apiH[k].op, headers.Authorization) >>]]

\* fetch() settled: a rejection ends the operation, getBook returns null for
\* 404, any other response that is not ok throws, an ok one is returned
apiResponded(k, status) ==
  /\ UNCHANGED << viewVars, authVars >>
  /\ apiH[k].pc = "fetch"
  /\ apiH' = [apiH EXCEPT ![k] =
       IF status = NetworkFailure
         THEN [@ EXCEPT !.pc = "threw", !.thrown = "TypeError"]
       ELSE IF apiH[k].op = "getBook" /\ status = 404
         THEN [@ EXCEPT !.pc = "returned", !.value = "null"]
       ELSE IF ~responseOk(status)
         THEN [@ EXCEPT !.pc = "threw", !.thrown = apiFailure(apiH[k].op)]
       ELSE [@ EXCEPT !.pc = "returned",
                      !.value = IF apiH[k].op = "deleteReadingList" THEN "undefined"
                                ELSE "json"]]

NextApi ==
  \/ \E k \in ApiIds, op \in ApiOps : apiCall(k, op)
  \/ \E k \in ApiIds, session \in ApiSessionSettlements : apiSessionFetched(k, session)
  \/ \E k \in ApiIds, status \in FetchSettlements : apiResponded(k, status)

(* ---------------------------- specifications --------------------------- *)

Init == InitView /\ InitAuth /\ InitApi

\* the sign-up view alone
SpecView == Init /\ [][NextView]_vars

\* a provider call awaited by a sign-up or verification submission settles
settleSubmission ==
  \/ \E r \in Settlements : signupResolved(r)
  \/ \E r \in Settlements : signupRejectedExists(r)
  \/ \E r \in Settlements : signupRejectedOther(r)
  \/ \E r \in Settlements : autoResendSettled(r)
  \/ \E r \in Settlements : verifyCodeSettled(r)

\* the sign-up view with an identity provider that settles every call a
\* submission awaits: the handler is resumed once the awaited promise settles
SpecViewFair == SpecView /\ WF_vars(settleSubmission)

\* the auth provider alone
SpecAuth == Init /\ [][NextAuth]_vars

\* the API client alone
SpecApi == Init /\ [][NextApi]_vars

(* ------------- the sign-up view inside the auth provider --------------- *)

\* The view is rendered inside the provider: its handlers run while the
\* provider's mount-time check and login() calls run.  The inputs are a slice
\* of those above: a draft that passes validation, a non-empty code, one
\* provider error of each classification, one identity, one login() caller.
AppName == <<"A", "n", "n">>
AppCodes == { c \in Codes : validateRequired(c) }
AppErrors == { err \in ProviderErrors : err.name # "ServiceError" }
AppSettlements == { Resolved } \cup { Rejected(err) : err \in AppErrors }
AppSessionSettlements ==
  { Resolved } \cup { Rejected(err) : err \in { e \in AppErrors : ~isAlreadyExists(e) } }
AppSignInSettlements == { r \in SignInSettlements : r.ok \/ r.error \in AppErrors }
AppCurrentUserSettlements ==
  { r \in CurrentUserSettlements :
      IF r.ok THEN r.currentUser.username = EmailA
      ELSE r.error \in AppErrors /\ ~isAlreadyExists(r.error) }
AppLoginIds == { 1 }
AppLogoutIds == { 1 }

NextApp ==
  \/ setEmail(EmailA)
  \/ handleSignupSubmit(AppName, StrongPassword, StrongPassword)
  \/ \E r \in AppSettlements : signupResolved(r)
  \/ \E r \in AppSettlements : signupRejectedExists(r)
  \/ \E r \in AppSettlements : signupRejectedOther(r)
  \/ \E r \in AppSettlements : autoResendSettled(r)
  \/ \E code \in AppCodes : handleVerificationSubmit(code)
  \/ \E r \in AppSettlements : verifyCodeSettled(r)
  \/ handleResendCode
  \/ \E r \in AppSettlements : resendCodeSettled(r)
  \/ backToSignup
  \/ mountEffect
  \/ \E r \in AppSessionSettlements : mountFetched(r)
  \/ \E r \in AppCurrentUserSettlements, now \in Times : mountDone(r, now)
  \/ \E i \in AppLoginIds, e \in LoginEmails, p \in LoginPasswords : login(i, e, p)
  \/ \E i \in AppLoginIds, r \in AppSignInSettlements : loginSignedIn(i, r)
  \/ \E i \in AppLoginIds, r \in AppSessionSettlements : loginFetched(i, r)
  \/ \E i \in AppLoginIds, r \in AppCurrentUserSettlements, now \in Times :
        loginDone(i, r, now)

SpecApp == Init /\ [][NextApp]_vars

\* The same slice of the view, next to the provider's login() and logout():
\* every operation of the view and of the provider that calls the identity
\* provider on behalf of the user.
NextCalls ==
  \/ setEmail(EmailA)
  \/ handleSignupSubmit(AppName, StrongPassword, StrongPassword)
  \/ \E r \in AppSettlements : signupResolved(r)
  \/ \E r \in AppSettlements : signupRejectedExists(r)
  \/ \E r \in AppSettlements : signupRejectedOther(r)
  \/ \E r \in AppSettlements : autoResendSettled(r)
  \/ \E code \in AppCodes : handleVerificationSubmit(code)
  \/ \E r \in AppSettlements : verifyCodeSettled(r)
  \/ handleResendCode
  \/ \E r \in AppSettlements : resendCodeSettled(r)
  \/ backToSignup
  \/ \E i \in AppLoginIds, e \in LoginEmails, p \in LoginPasswords : login(i, e, p)
  \/ \E i \in AppLoginIds, r \in AppSignInSettlements : loginSignedIn(i, r)
  \/ \E i \in AppLoginIds, r \in AppSessionSettlements : loginFetched(i, r)
  \/ \E i \in AppLoginIds, r \in AppCurrentUserSettlements, now \in Times :
        loginDone(i, r, now)
  \/ \E j \in AppLogoutIds : logout(j)
  \/ \E j \in AppLogoutIds, r \in AppSessionSettlements : logoutSignedOut(j, r)

SpecCalls == Init /\ [][NextCalls]_vars

(* ================================ claims =============================== *)

\* the 'already exists' classification as the specification words it: the
\* error kind UsernameExistsException, or a message containing 'already exists'
ClassifiedAlreadyExists(err) ==
  \/ err.name = "UsernameExistsException"
  \/ \E m \in err.message : \E i \in 1..(Len(m) - 1) : m[i] = "already" /\ m[i + 1] = "exists"

\* the latest sign-up submission succeeded, or failed with that classification
SignupSucceeded(h) == h.result.ok
SignupFailedExists(h) ==
  h.pc \in {"resendCode", "done"} /\ h.calls # << >> /\ ~h.result.ok
    /\ ClassifiedAlreadyExists(h.result.error)
SignupAdvanced(h) == SignupSucceeded(h) \/ SignupFailedExists(h)

(* ---- C1 ---- *)

\* C1 (as claimed): whenever a logout() call gets its signOut() settled,
\* resolved or rejected, the published user is absent afterwards and the call
\* returns to its caller without an error.
C1_LogoutAlwaysClears ==
  [][\A j \in LogoutIds :
       (logoutH[j].pc = "signOut" /\ logoutH'[j].pc # "signOut")
         => (user' = NoUser /\ logoutH'[j].pc = "returned" /\ logoutH'[j].error = NoError)]_vars

(* ---- C2 ---- *)

\* C2 (as claimed): in every state the step is 'verification' if and only if
\* the latest sign-up submission succeeded or failed as 'already exists'.
C2_StepIffLatestAdvanced ==
  (step = "verification") <=> SignupAdvanced(signupH)

\* C2 (amended): the step is 'verification' only if the latest sign-up
\* submission succeeded or failed as 'already exists' (so the step is 'signup'
\* before any submission); every submission that settles in one of these two
\* ways sets the step to 'verification'; and the step goes back to 'signup'
\* only by a step that is no part of a submission (Back to Signup), so the
\* converse does not hold.
C2_StepFollowsSignup ==
  /\ [](step = "verification" => SignupAdvanced(signupH))
  /\ [][(signupH.pc = "signUp" /\ signupH'.pc # "signUp" /\ SignupAdvanced(signupH'))
          => step' = "verification"]_vars
  /\ [][(step = "verification" /\ step' = "signup") => signupH' = signupH]_vars

C2_Witness ==
  step = "verification" /\ SignupFailedExists(signupH) /\ signupH.pc = "done"

(* ---- C3 ---- *)

\* C3 (as claimed): once a verification submission has succeeded the view has
\* navigated to the login destination and holds no field errors.
C3_VerifiedNoErrors ==
  verifyH.result = "resolved" => (location = "/login" /\ errors = NoErrors)

\* C3 (amended): the step in which verifyCode() resolves navigates to the login
\* destination and leaves the field errors as they were, so a code error of an
\* earlier attempt or the email error of the already-exists path is still held.
C3_VerifiedKeepsErrors ==
  [][(verifyH.pc = "confirmSignUp" /\ verifyH'.result = "resolved")
       => (location' = "/login" /\ errors' = errors)]_vars

C3_Witness ==
  verifyH.result = "resolved" /\ location = "/login" /\ "email" \in DOMAIN errors

(* ---- C4 ---- *)

\* C4: when signup() of a submission that passed validation rejects with an
\* error classified 'already exists', that step sets the step to
\* 'verification' and the email field error, and the submission makes exactly
\* one resend call, for the email it submitted.
C4_ExistsPath ==
  /\ [][(signupH.pc = "signUp" /\ SignupFailedExists(signupH'))
          => /\ step' = "verification"
             /\ "email" \in DOMAIN errors'
             /\ signupH'.pc = "resendCode"]_vars
  /\ [](SignupFailedExists(signupH)
          => signupH.calls = << signUpCall(signupH.draft.email, signupH.draft.password,
                                           signupH.draft.name),
                                resendCall(signupH.draft.email) >>)

C4_Witness ==
  /\ SignupFailedExists(signupH) /\ signupH.pc = "done"
  /\ signupH.result.error.name # "UsernameExistsException"
  /\ Len(signupH.calls) = 2

(* ---- C5 ---- *)

\* C5 (as claimed): when a submission that took the 'already exists' path
\* finishes, the resend status is the 'new code sent' success message if its
\* automatic resend resolved, and is absent, with no error recorded, if it
\* rejected.
C5_AutoResendStatus ==
  [][(signupH.pc = "resendCode" /\ signupH'.pc = "done")
       => /\ resendStatus' = IF signupH'.resend = "resolved" THEN AutoResendSent
                                                              ELSE NoStatus
          /\ signupH'.resend = "rejected" => (errors' = errors /\ apiError' = apiError)]_vars

(* ---- C6 ---- *)

C6_Violates(d) ==
  \/ ~validateRequired(d.name) \/ ~validateRequired(d.email)
  \/ ~validateRequired(d.password) \/ ~validateRequired(d.confirmPassword)
  \/ ~validateEmail(d.email)
  \/ ~validatePassword(d.password)
  \/ d.password # d.confirmPassword

\* the fields a violated rule belongs to, as the claim lists the rules
C6_FieldsViolated(d) ==
  { f \in {"name", "email", "password", "confirmPassword"} :
      CASE f = "name" -> ~validateRequired(d.name)
        [] f = "email" -> ~validateRequired(d.email) \/ ~validateEmail(d.email)
        [] f = "password" -> ~validateRequired(d.password) \/ ~validatePassword(d.password)
        [] f = "confirmPassword" ->
             ~validateRequired(d.confirmPassword) \/ d.password # d.confirmPassword }

\* C6 (as claimed): a submitted draft that violates a rule makes no provider
\* call, leaves the step at 'signup' and has a field error recorded for every
\* violated rule.
C6_ErrorPerViolatedRule ==
  (signupH.pc # "idle" /\ C6_Violates(signupH.draft))
    => /\ signupH.calls = << >>
       /\ step = "signup"
       /\ C6_FieldsViolated(signupH.draft) \subseteq DOMAIN errors

\* the errors the code records for a draft
C6_Recorded(d) ==
  (IF ~validateRequired(d.name) THEN OneError("name", NameRequired) ELSE NoErrors)
  @@ (IF ~validateRequired(d.email) THEN OneError("email", EmailRequired)
      ELSE IF ~validateEmail(d.email) THEN OneError("email", EmailInvalid) ELSE NoErrors)
  @@ (IF ~validateRequired(d.password) THEN OneError("password", PasswordRequired)
      ELSE IF ~validatePassword(d.password) THEN OneError("password", PasswordWeak)
      ELSE NoErrors)
  @@ (IF d.password # d.confirmPassword THEN OneError("confirmPassword", PasswordsDiffer)
      ELSE NoErrors)

\* C6 (amended): a submitted draft that violates a rule makes no provider
\* call and leaves the step at 'signup'; at least one field error is
\* recorded: for name, email and password the error of the first rule the
\* field violates (required before format or policy), and for confirm-password
\* an error exactly when it differs from password, so an empty confirm-password
\* next to an empty password has no error of its own.
C6_InvalidDraftRejected ==
  (signupH.pc # "idle" /\ C6_Violates(signupH.draft))
    => /\ signupH.pc = "done"
       /\ signupH.calls = << >>
       /\ step = "signup"
       /\ errors # NoErrors
       /\ errors = C6_Recorded(signupH.draft)

C6_Witness ==
  /\ signupH.pc = "done" /\ signupH.calls = << >>
  /\ signupH.draft.password = EmptyText /\ signupH.draft.confirmPassword = EmptyText
  /\ validateRequired(signupH.draft.name) /\ validateEmail(signupH.draft.email)
  /\ DOMAIN errors = {"password"}

(* ---- C7 ---- *)

\* C7 (as claimed): the step in which signup() resolves takes the step from
\* 'signup' to 'verification' and leaves the resend status absent.
C7_SignupSuccessNoStatus ==
  [][(signupH.pc = "signUp" /\ signupH'.pc = "done" /\ signupH'.result.ok)
       => (step = "signup" /\ step' = "verification" /\ resendStatus' = NoStatus)]_vars

(* ---- C8 ---- *)

\* C8 (as claimed): when verifyCode() rejects, the handler finishes with the
\* step at 'verification', the code error set, no navigation, and the
\* verification form usable again (mounted, shown, not loading).
C8_VerifyFailureStays ==
  [][(verifyH.pc = "confirmSignUp" /\ verifyH'.result = "rejected")
       => /\ step' = "verification"
          /\ errors' = OneError("code", CodeInvalid)
          /\ location' = "/signup"
          /\ ~isLoading']_vars

(* ---- C9 ---- *)

\* C9: the step that starts a manual resend (one more resend call in flight)
\* sets the resend status to absent; the step in which such a call settles
\* sets it to the fixed success message if the provider resolved the call and
\* to the fixed rate-limit message if the provider rejected it, whatever the
\* error.
C9_ManualResend ==
  [][/\ resendH' = resendH + 1 => resendStatus' = NoStatus
     /\ resendH' = resendH - 1
          => /\ lastResend' \in {"resolved", "rejected"}
             /\ resendStatus' = IF lastResend' = "resolved" THEN ResendSent
                                                           ELSE ResendLimited]_vars

C9_Witness ==
  lastResend = "rejected" /\ resendStatus = ResendLimited /\ resendH = 0

(* ---- C10 ---- *)

C10_SignInCalls(h) == { k \in 1..Len(h.calls) : h.calls[k].op = "signIn" }

\* C10: a login() call makes one signIn() call.  When signIn() rejects, login
\* throws that error and that step leaves the published user alone and makes
\* no other call; when it resolves not signed in, login returns, and that step
\* leaves the published user alone and makes no session check; when it
\* resolves signed in, login does not return in that step but goes on to the
\* session check, and the step in which login returns publishes the check's
\* result: a user with the provider's identity, or none if the check failed.
C10_Login ==
  /\ [](\A i \in LoginIds :
          loginH[i].pc # "idle" => C10_SignInCalls(loginH[i]) = {1})
  /\ [][\A i \in LoginIds :
          LET h == loginH[i]
              g == loginH'[i]
          IN /\ (h.pc = "signIn" /\ g.pc # "signIn" /\ ~g.result.ok)
                  => /\ g.pc = "threw" /\ g.error = g.result.error
                     /\ g.error \in ProviderErrors
                     /\ user' = user /\ g.calls = h.calls
             /\ (h.pc = "signIn" /\ g.pc # "signIn" /\ g.result.ok /\ ~g.result.isSignedIn)
                  => /\ g.pc = "returned"
                     /\ user' = user /\ g.calls = h.calls
             /\ (h.pc = "signIn" /\ g.pc # "signIn" /\ g.result.ok /\ g.result.isSignedIn)
                  => /\ g.pc = "fetchAuthSession"
                     /\ g.calls = Append(h.calls, authCall("fetchAuthSession"))
             /\ (Running(h) /\ ~Running(g) /\ g.result.isSignedIn)
                  => /\ g.pc = "returned"
                     /\ Len(g.calls) >= 2
                     /\ IF g.current.ok
                        THEN /\ user'.id = g.current.currentUser.userId
                             /\ user'.email = g.current.currentUser.username
                             /\ user'.role = "user"
                        ELSE user' = NoUser]_vars

C10_Witness ==
  \E i \in LoginIds :
    /\ loginH[i].pc = "returned" /\ loginH[i].result.isSignedIn /\ loginH[i].current.ok
    /\ user.id = loginH[i].current.currentUser.userId

(* ---- C11 ---- *)

C11_Ops(h) == [k \in 1..Len(h.calls) |-> h.calls[k].op]
C11_CheckOps(h) == SelectSeq(C11_Ops(h), LAMBDA op : op # "signIn")

\* what a step does to a session check whose record is h before and g after
C11_CheckStep(h, g) ==
  /\ (h.pc = "fetchAuthSession" /\ g.pc # "fetchAuthSession")
       => IF g.pc = "getCurrentUser"
          THEN /\ C11_CheckOps(g) = << "fetchAuthSession", "getCurrentUser" >>
               /\ user' = user /\ authIsLoading' = authIsLoading
          ELSE /\ g.pc = "returned"
               /\ g.logged = "User not signed in"
               /\ C11_CheckOps(g) = << "fetchAuthSession" >>
               /\ user' = NoUser /\ ~authIsLoading'
  /\ (h.pc = "getCurrentUser" /\ g.pc # "getCurrentUser")
       => /\ g.pc = "returned"
          /\ C11_CheckOps(g) = << "fetchAuthSession", "getCurrentUser" >>
          /\ ~authIsLoading'
          /\ IF g.current.ok
             THEN /\ user'.id = g.current.currentUser.userId
                  /\ user'.email = g.current.currentUser.username
                  /\ user'.name = g.current.currentUser.username
                  /\ user'.role = "user"
                  /\ user' # NoUser
             ELSE user' = NoUser

\* C11: a session check (the one of the mount effect, or the one of a login())
\* calls fetchAuthSession() and, only if that resolved, getCurrentUser().  The
\* step in which the check returns publishes a user with the provider's
\* identity and role 'user' if both resolved, and no user if either rejected;
\* it leaves the provider's loading flag false.  In every state
\* isAuthenticated holds exactly when a user is published.
C11_SessionCheck ==
  /\ [][/\ C11_CheckStep(mountH, mountH')
        /\ \A i \in LoginIds : C11_CheckStep(loginH[i], loginH'[i])]_vars
  /\ [](isAuthenticated <=> user.role = "user")

C11_Witness ==
  /\ mountH.pc = "returned" /\ mountH.current.ok
  /\ user.id = mountH.current.currentUser.userId /\ user.role = "user"
  /\ isAuthenticated /\ ~authIsLoading
  /\ \E i \in LoginIds : loginH[i].pc = "returned" /\ loginH[i].result.isSignedIn
                            /\ Len(loginH[i].calls) = 2

(* ---- C12 ---- *)

\* the record of a verification submission that was refused for its empty code
C12_Refused(h) == h.pc = "done" /\ h.calls = << >>

\* C12: the step in which a verification submission is refused for its empty
\* code records the 'code' field error alone, makes no provider call (neither
\* a confirm call nor a resend call) and leaves the step, the loading flag and
\* the resend status as they were; the form it was submitted from is the
\* verification form of an idle view.
C12_EmptyCode ==
  [][(verifyH' # verifyH /\ C12_Refused(verifyH'))
       => /\ errors' = OneError("code", CodeRequired)
          /\ verifyH'.calls = << >> /\ resendH' = resendH /\ signupH' = signupH
          /\ step' = step /\ step = "verification"
          /\ isLoading' = isLoading /\ ~isLoading
          /\ resendStatus' = resendStatus
          /\ location' = location]_vars

C12_Witness ==
  /\ C12_Refused(verifyH) /\ errors = OneError("code", CodeRequired)
  /\ step = "verification" /\ ~isLoading /\ resendStatus = ResendSent

(* ---- C13 ---- *)

\* C13 (as claimed): the step in which signup() rejects with an error that is
\* not classified 'already exists' finishes the submission: the error is given
\* to handleApiError, the step stays 'signup', the submission has made no
\* resend call, and the resend status is absent.
C13_OtherFailure ==
  [][(signupH.pc = "signUp" /\ signupH'.pc # "signUp" /\ ~signupH'.result.ok
        /\ ~ClassifiedAlreadyExists(signupH'.result.error))
       => /\ signupH'.pc = "done"
          /\ apiError' = signupH'.result.error
          /\ step = "signup" /\ step' = "signup"
          /\ Len(signupH'.calls) = 1 /\ signupH'.calls[1].op = "signUp"
          /\ resendStatus' = NoStatus]_vars

(* ---- C14 ---- *)

\* a step in which the view calls, or gets the settlement of, one of the
\* provider's signup(), verifyCode() and resendCode()
C14_PassThroughStep ==
  \/ signupH'.pc # signupH.pc
  \/ verifyH'.pc # verifyH.pc
  \/ resendH' # resendH

\* C14: a step in which signup(), verifyCode() or resendCode() is called or
\* settles, resolved or rejected, leaves the published user, isAuthenticated
\* and the provider's loading flag as they were.  A rejection reaches the
\* caller: the sign-up handler runs its catch (the 'already exists' path or
\* handleApiError with that error), the verification handler hands the error
\* to handleApiError and sets the code error, a manual resend shows the
\* rate-limit message and an automatic resend shows no success message.  After
\* a verification that succeeded nobody is authenticated unless a login() was
\* called or the mount-time check found a session.
C14_PassThroughs ==
  /\ [][C14_PassThroughStep
          => /\ user' = user /\ authIsLoading' = authIsLoading
             /\ (user' # NoUser) = isAuthenticated]_vars
  /\ [][/\ (signupH.pc = "signUp" /\ signupH'.pc # "signUp" /\ ~signupH'.result.ok)
             => \/ signupH'.pc = "resendCode" /\ errors' = OneError("email", UserExists)
                \/ signupH'.pc = "done" /\ apiError' = signupH'.result.error
                     /\ step' = "signup"
        /\ (signupH.pc = "resendCode" /\ signupH'.resend = "rejected")
             => resendStatus' = resendStatus
        /\ (verifyH.pc = "confirmSignUp" /\ verifyH'.result = "rejected")
             => /\ apiError' \in ProviderErrors
                /\ errors' = OneError("code", CodeInvalid)
                /\ location' = location
        /\ (resendH' = resendH - 1 /\ lastResend' = "rejected")
             => resendStatus' = ResendLimited]_vars
  /\ []((/\ verifyH.result = "resolved"
          /\ \A i \in LoginIds : loginH[i].pc = "idle"
          /\ ~(mountH.pc = "returned" /\ mountH.current.ok))
          => ~isAuthenticated)

C14_Witness ==
  /\ verifyH.result = "resolved" /\ location = "/login"
  /\ SignupFailedExists(signupH) /\ signupH.resend = "rejected"
  /\ lastResend = "rejected"
  /\ mountH.pc = "returned" /\ mountH.current.ok /\ isAuthenticated /\ ~authIsLoading
  /\ \A i \in LoginIds : loginH[i].pc = "idle"

(* ---- C15 ---- *)

\* C15: a call of a bearer-authenticated operation issues at most one HTTP
\* request, and only after the session fetch of the same call resolved with a
\* token: the request carries that token as its bearer token.  A call whose
\* session fetch rejected or yielded no token has thrown and has issued no
\* request.
C15_BearerRequests ==
  \A k \in ApiIds :
    LET h == apiH[k]
    IN h.op \in BearerOps
         => /\ Len(h.requests) <= 1
            /\ \A n \in 1..Len(h.requests) :
                  /\ h.session.ok /\ h.session.token \in Tokens
                  /\ h.requests[n].Authorization = Bearer(h.session.token)
            /\ h.pc = "fetchAuthSession" => h.requests = << >>
            /\ (h.pc # "fetchAuthSession" /\ (~h.session.ok \/ h.session.token = NoToken))
                 => (h.pc = "threw" /\ h.thrown # "" /\ h.requests = << >>)
            /\ h.pc \in { "fetch", "returned" } => Len(h.requests) = 1

C15_Witness ==
  /\ apiH[1].op = "deleteReadingList" /\ apiH[1].pc = "returned"
  /\ apiH[1].requests = << httpRequest("deleteReadingList", Bearer("token-1")) >>
  /\ apiH[2].op = "getRecommendations" /\ apiH[2].pc = "threw"
  /\ apiH[2].session.ok /\ apiH[2].session.token = NoToken /\ apiH[2].requests = << >>

(* ---- C16 ---- *)

\* the user-triggered handlers that are awaiting a provider call
C16_InFlight ==
  (IF signupH.pc \in {"signUp", "resendCode"} THEN 1 ELSE 0)
    + (IF verifyH.pc = "confirmSignUp" THEN 1 ELSE 0)
    + resendH

\* C16 (as claimed): at most one user-triggered handler of the view (sign-up
\* submission, verification submission, manual resend) is awaiting a provider
\* call in any state.
C16_OneHandlerInFlight == C16_InFlight <= 1

(* ---- C17 ---- *)

\* the email given to the signUp call of the latest sign-up submission, which
\* is the submission that brought the view to the 'verification' step
C17_SignedUpEmail == signupH.calls[1].username

\* C17 (as claimed): the confirm call of a verification submission, the
\* automatic resend call of a sign-up submission and the resend call of a
\* manual resend (which is made for the email the view holds when Resend Code
\* is clicked) are made for the email that was given to the signUp call.
C17_SameEmail ==
  [][/\ (verifyH'.pc = "confirmSignUp" /\ verifyH.pc # "confirmSignUp")
          => /\ signupH.calls # << >>
             /\ verifyH'.calls[1].username = C17_SignedUpEmail
     /\ (signupH'.pc = "resendCode" /\ signupH.pc # "resendCode")
          => signupH'.calls[2].username = C17_SignedUpEmail
     /\ resendH' = resendH + 1
          => (signupH.calls # << >> /\ email = C17_SignedUpEmail)]_vars

(* ---- C18 ---- *)

C18_Ops(calls) == [k \in 1..Len(calls) |-> calls[k].op]

\* what a step may do to a record of provider calls: leave it, or add one call
C18_Grows(before, after, op) ==
  after = before \/ C18_Ops(after) = Append(C18_Ops(before), op)

\* C18: a sign-up submission makes no call, a signUp call, or a signUp call
\* and then one resend call, the resend only after signUp failed as 'already
\* exists'; a verification submission makes at most one confirm call; a
\* login() makes one signIn call, before its session check, and a logout()
\* one signOut call.  The step in which a call settles starts no call of the
\* same operation: a rejected signUp, confirm, signIn or signOut is not issued
\* again, and the settlement of a manual resend leaves one resend call fewer
\* in flight, each click on Resend Code having added one.
C18_NoRetry ==
  /\ [](/\ C18_Ops(signupH.calls) \in { << >>, << "signUp" >>,
                                        << "signUp", "resendSignUpCode" >> }
        /\ Len(signupH.calls) = 2 => SignupFailedExists(signupH)
        /\ C18_Ops(verifyH.calls) \in { << >>, << "confirmSignUp" >> }
        /\ \A i \in LoginIds :
             /\ loginH[i].pc # "idle" => C10_SignInCalls(loginH[i]) = {1}
             /\ Len(loginH[i].calls) <= 3
        /\ \A j \in LogoutIds :
             logoutH[j].pc # "idle" => C18_Ops(logoutH[j].calls) = << "signOut" >>)
  /\ [][/\ (signupH.pc = "signUp" /\ signupH'.result # signupH.result)
             => C18_Grows(signupH.calls, signupH'.calls, "resendSignUpCode")
        /\ signupH.pc = "resendCode" => signupH'.calls = signupH.calls
        /\ verifyH.pc = "confirmSignUp" => verifyH'.calls = verifyH.calls
        /\ \A i \in LoginIds :
             (loginH[i].pc = "signIn" /\ ~loginH'[i].result.ok)
               => loginH'[i].calls = loginH[i].calls
        /\ \A j \in LogoutIds :
             logoutH[j].pc = "signOut" => logoutH'[j].calls = logoutH[j].calls
        /\ resendH' \in { resendH - 1, resendH, resendH + 1 }
        /\ lastResend' # lastResend => resendH' = resendH - 1
        /\ resendH' = resendH + 1
             => (signupH' = signupH /\ verifyH' = verifyH)]_vars

C18_Witness ==
  /\ signupH.pc = "done" /\ ~SignupAdvanced(signupH) /\ Len(signupH.calls) = 1
  /\ verifyH.result = "rejected" /\ Len(verifyH.calls) = 1
  /\ lastResend = "rejected" /\ resendH = 0
  /\ \E i \in LoginIds : loginH[i].pc = "threw" /\ Len(loginH[i].calls) = 1
  /\ \E j \in LogoutIds : logoutH[j].pc = "returned" /\ ~logoutH[j].result.ok

(* ---- C19 ---- *)

\* a sign-up or verification submission is awaiting a provider call
C19_Awaiting ==
  signupH.pc \in {"signUp", "resendCode"} \/ verifyH.pc = "confirmSignUp"

\* C19: in every state the view's loading flag is true exactly when a sign-up
\* or verification submission is awaiting a provider call, so it is false
\* once such a submission has finished, by whichever path.  The flag goes from
\* true to false only in a step in which the awaited call settles and the
\* submission finishes: a call that never settles leaves it true.  When every
\* awaited call settles, a flag that is true becomes false.
C19_Loading ==
  /\ [](isLoading <=> C19_Awaiting)
  /\ [](signupH.pc = "done" /\ verifyH.pc \in {"idle", "done"} => ~isLoading)
  /\ [][(isLoading /\ ~isLoading')
          => \/ signupH.pc \in {"signUp", "resendCode"} /\ signupH'.pc = "done"
             \/ verifyH.pc = "confirmSignUp" /\ verifyH'.pc = "done"]_vars
  /\ (isLoading ~> ~isLoading)

C19_Witness ==
  /\ ~isLoading /\ signupH.pc = "done" /\ signupH.resend = "rejected"
  /\ verifyH.pc = "done" /\ verifyH.result = "rejected"

(* ---- C20 ---- *)

\* a login() whose signIn() reported signed-in after the last logout() that
\* cleared the published user
C20_LaterLogin ==
  \E i \in LoginIds :
    /\ loginH[i].pc \in {"fetchAuthSession", "getCurrentUser", "returned"}
    /\ loginH[i].result.ok /\ loginH[i].result.isSignedIn
    /\ ~loginH[i].overtaken

\* a session check that a logout() has overtaken returns in this step
C20_StaleCheckReturns ==
  \/ mountH.overtaken /\ mountH.pc = "getCurrentUser" /\ mountH'.pc = "returned"
  \/ \E i \in LoginIds :
       /\ loginH[i].overtaken
       /\ loginH[i].pc = "getCurrentUser" /\ loginH'[i].pc = "returned"

\* C20 (as claimed): when a session check that started before a logout()
\* cleared the published user returns after it, and no login() has reported
\* signed-in since that logout, the published user stays absent.
C20_StaysCleared ==
  [][(C20_StaleCheckReturns /\ user = NoUser /\ ~C20_LaterLogin) => user' = NoUser]_vars

====
